---- MODULE Spec2Model ----
(***************************************************************************)
(* A model of src/app.py: the POST /overlay handler (overlay_logo) and the *)
(* helpers it calls (require_token, clamp_float, load_logo,                *)
(* compute_position).                                                      *)
(*                                                                         *)
(* One request is followed from arrival to response.  The handler keeps no *)
(* state between requests, so one request is the whole state machine.      *)
(* The request, the environment configuration and the outside world (what  *)
(* the two URLs serve, what lies at LOGO_PATH) are fixed in the initial    *)
(* state; the handler then runs its five steps in program order.           *)
(*                                                                         *)
(* Representation                                                          *)
(*   - Optional[T]   : [some |-> BOOLEAN, v |-> T]                         *)
(*   - str that is trimmed / lower-cased / compared : a sequence of        *)
(*     one-character strings                                               *)
(*   - float         : [k |-> "fin" | "nan" | "inf" | "ninf", m |-> Int],  *)
(*     a finite value being m thousandths (0.18 is Fin(180))               *)
(*   - bytes         : [kind |-> "empty" | "junk" | "img", w, h]; only     *)
(*     "img" bytes decode, to an image of size w x h                       *)
(*   - the image library (decode, resize, alpha composite, PNG encode) is  *)
(*     trusted: resize yields the size asked for, composite clips.         *)
(***************************************************************************)
EXTENDS Integers, Sequences, FiniteSets, TLC

VARIABLES
    cfg,       \* environment: RUNNER_TOKEN, DEFAULT_POSITION, DEFAULT_MARGIN_PX, ...
    req,       \* the request's form fields and Authorization header
    world,     \* what image_url and logo_url serve, and the file at LOGO_PATH
    pc,        \* the handler's position
    pos,       \* local pos      (line 86)
    margin,    \* local margin   (lines 90-92)
    sc,        \* local sc       (lines 94-95)
    op,        \* local op       (lines 97-98)
    base,      \* local base     (lines 101-118)
    logo,      \* local logo     (line 121), before the resize
    target,    \* <<target_logo_w, target_logo_h>> (lines 124-126)
    place,     \* <<x, y>>       (line 141)
    steps,     \* history: the steps that have run, in order
    calls,     \* history: outbound GETs and the LOGO_PATH access, in order
    response   \* the HTTP response, once produced

vars == <<cfg, req, world, pc, pos, margin, sc, op, base, logo, target, place,
          steps, calls, response>>

----------------------------------------------------------------------------
(* Bounds of the model. *)

\* image sides 1..MaxDim are enumerated (besides the named sample sizes)
MaxDim == 3
\* margins 0..MaxMargin are enumerated (besides the default 24 and negatives)
MaxMargin == 2

----------------------------------------------------------------------------
(* Values. *)

Max(a, b) == IF a >= b THEN a ELSE b

NoStr == [some |-> FALSE, v |-> ""]
SomeStr(s) == [some |-> TRUE, v |-> s]
NoText == [some |-> FALSE, v |-> <<>>]
SomeText(s) == [some |-> TRUE, v |-> s]
NoInt == [some |-> FALSE, v |-> 0]
SomeInt(i) == [some |-> TRUE, v |-> i]

Fin(m) == [k |-> "fin", m |-> m]
NaN == [k |-> "nan", m |-> 0]
PosInf == [k |-> "inf", m |-> 0]
NegInf == [k |-> "ninf", m |-> 0]
NoFloat == [some |-> FALSE, v |-> Fin(0)]
SomeFloat(f) == [some |-> TRUE, v |-> f]

EmptyBytes == [kind |-> "empty", w |-> 0, h |-> 0]
JunkBytes == [kind |-> "junk", w |-> 0, h |-> 0]
ImgBytes(w, h) == [kind |-> "img", w |-> w, h |-> h]
NoBytes == [some |-> FALSE, v |-> EmptyBytes]
SomeBytes(b) == [some |-> TRUE, v |-> b]

NoImage == [w |-> 0, h |-> 0, src |-> "none"]
NoHeader == [some |-> FALSE, v |-> [scheme |-> "", cred |-> <<>>]]
Header(scheme, cred) == [some |-> TRUE, v |-> [scheme |-> scheme, cred |-> cred]]

\* a response: an error (status, kind), or the PNG, described by what was
\* composited: the canvas size, the overlay's size, source and alpha factor
\* (thousandths), and where it was put
NoResponse == [status |-> 0, kind |-> "none", canvas |-> <<0, 0>>,
               overlay |-> <<0, 0>>, logo_src |-> "none", alpha |-> 0,
               at |-> <<0, 0>>]
ErrorResponse(status, kind) == [NoResponse EXCEPT !.status = status, !.kind = kind]

----------------------------------------------------------------------------
(* Text: str.strip() and str.lower(). *)

UpperAlpha == <<"A","B","C","D","E","F","G","H","I","J","K","L","M",
                "N","O","P","Q","R","S","T","U","V","W","X","Y","Z">>
LowerAlpha == <<"a","b","c","d","e","f","g","h","i","j","k","l","m",
                "n","o","p","q","r","s","t","u","v","w","x","y","z">>

IsSpace(c) == c \in {" ", "\t", "\n", "\r"}

LowerChar(c) ==
    IF \E i \in DOMAIN UpperAlpha : UpperAlpha[i] = c
    THEN LowerAlpha[CHOOSE i \in DOMAIN UpperAlpha : UpperAlpha[i] = c]
    ELSE c

Lower(s) == [i \in DOMAIN s |-> LowerChar(s[i])]

RECURSIVE LStrip(_)
LStrip(s) == IF s # <<>> /\ IsSpace(Head(s)) THEN LStrip(Tail(s)) ELSE s

RECURSIVE RStrip(_)
RStrip(s) ==
    IF s # <<>> /\ IsSpace(s[Len(s)]) THEN RStrip(SubSeq(s, 1, Len(s) - 1)) ELSE s

Strip(s) == RStrip(LStrip(s))

TOP_LEFT == <<"t","o","p","_","l","e","f","t">>
TOP_RIGHT == <<"t","o","p","_","r","i","g","h","t">>
BOTTOM_LEFT == <<"b","o","t","t","o","m","_","l","e","f","t">>
BOTTOM_RIGHT == <<"b","o","t","t","o","m","_","r","i","g","h","t">>
CENTER == <<"c","e","n","t","e","r">>

POSITIONS == {TOP_LEFT, TOP_RIGHT, BOTTOM_LEFT, BOTTOM_RIGHT, CENTER}

----------------------------------------------------------------------------
(* Floats: comparison and the two truncating products.                     *)

\* a < b on floats; every comparison with NaN is false
FLt(a, b) ==
    CASE a.k = "nan" \/ b.k = "nan" -> FALSE
      [] a.k = "ninf" -> b.k # "ninf"
      [] a.k = "inf" -> FALSE
      [] b.k = "inf" -> TRUE
      [] b.k = "ninf" -> FALSE
      [] OTHER -> a.m < b.m

SCALE_LO == 30
SCALE_HI == 800
OPACITY_LO == 50
OPACITY_HI == 1000
DEFAULT_MARGIN == 24
DEFAULT_SCALE_M == 180
DEFAULT_OPACITY_M == 950

clamp_float(value, lo, hi) ==
    IF FLt(value, lo) THEN lo
    ELSE IF FLt(hi, value) THEN hi
    ELSE value

(* int(base_w * sc) and int(logo_h * (target_w / float(logo_w))) are       *)
(* IEEE-754 double products truncated by int().  The exact quotient is     *)
(* floor'ed, except where the double product falls just below an exact     *)
(* integer: 100 * 0.29 is 28.999999999999996 and 98 * (1 / 49.0) is        *)
(* 1.9999999999999998.  The two sets below list every such case among      *)
(* base widths 1..8, 100, 1000, scales 0.01, 0.03, 0.05, 0.18, 0.29, 0.5,  *)
(* 0.8, 0.95 and logo sides 1..8, 49, 98, 100, 200 (evaluated with         *)
(* CPython's float), which covers every value the model draws.             *)
ScaleShort == {<<100, 290>>}
RatioShort == {<<49, 1, 49>>, <<49, 2, 49>>, <<49, 4, 49>>, <<49, 2, 98>>,
               <<49, 4, 98>>, <<98, 1, 49>>, <<98, 2, 49>>, <<98, 4, 49>>,
               <<98, 1, 98>>, <<98, 2, 98>>, <<98, 4, 98>>}

\* int(base_w * sc), sc finite (thousandths m)
IntScale(base_w, m) ==
    ((base_w * m) \div 1000) - (IF <<base_w, m>> \in ScaleShort THEN 1 ELSE 0)

\* int(logo_h * ratio), ratio = target_w / float(logo_w)
IntRatio(logo_h, target_w, logo_w) ==
    ((logo_h * target_w) \div logo_w)
        - (IF <<logo_h, target_w, logo_w>> \in RatioShort THEN 1 ELSE 0)

\* Python's round(logo_h * target_w / logo_w): nearest integer, ties to even
RoundRatio(logo_h, target_w, logo_w) ==
    LET n == logo_h * target_w
        q == n \div logo_w
        r2 == 2 * (n % logo_w)
    IN  IF r2 < logo_w THEN q
        ELSE IF r2 > logo_w THEN q + 1
        ELSE IF q % 2 = 0 THEN q ELSE q + 1

target_logo_w(base_w, m) == Max(1, IntScale(base_w, m))

target_logo_h_round(logo_h, target_w, logo_w) ==
    Max(1, RoundRatio(logo_h, target_w, logo_w))

target_logo_h(logo_h, target_w, logo_w) == Max(1, IntRatio(logo_h, target_w, logo_w))

----------------------------------------------------------------------------
(* require_token, lines 14-28: "ok", or the error it raises.               *)

require_token(auth) ==
    LET expected == cfg.RUNNER_TOKEN
    IN  IF expected = <<>> THEN "ok"
        ELSE IF ~auth.some \/ auth.v.scheme # "Bearer " THEN "Unauthenticated"
        ELSE IF Strip(auth.v.cred) # expected THEN "Forbidden"
        ELSE "ok"

----------------------------------------------------------------------------
(* compute_position, lines 57-67.                                          *)

compute_position_swapped(base_w, base_h, logo_w, logo_h, position, margin_px) ==
    IF position = TOP_LEFT THEN <<margin_px, margin_px>>
    ELSE IF position = TOP_RIGHT THEN <<base_w - margin_px, margin_px>>
    ELSE IF position = BOTTOM_LEFT THEN <<margin_px, base_h - logo_h - margin_px>>
    ELSE IF position = CENTER
         THEN <<(base_w - logo_w) \div 2, (base_h - logo_h) \div 2>>
    ELSE <<base_w - logo_w - margin_px, base_h - logo_h - margin_px>>

compute_position(base_w, base_h, logo_w, logo_h, position, margin_px) ==
    IF position = TOP_LEFT THEN <<margin_px, margin_px>>
    ELSE IF position = TOP_RIGHT THEN <<base_w - logo_w - margin_px, margin_px>>
    ELSE IF position = BOTTOM_LEFT THEN <<margin_px, base_h - logo_h - margin_px>>
    ELSE IF position = CENTER
         THEN <<(base_w - logo_w) \div 2, (base_h - logo_h) \div 2>>
    ELSE <<base_w - logo_w - margin_px, base_h - logo_h - margin_px>>

----------------------------------------------------------------------------
(* Fetching and decoding.                                                  *)

\* requests.get(url, timeout=..) followed by raise_for_status(): the body of
\* a 2xx answer, or an exception
Fetch(res) ==
    IF res.st = "ok" THEN [ok |-> TRUE, content |-> res.body]
    ELSE [ok |-> FALSE, content |-> EmptyBytes]

\* Image.open(..).convert("RGBA"): an image, or an exception
Decode(bytes, src) ==
    IF bytes.kind = "img"
    THEN [ok |-> TRUE, img |-> [w |-> bytes.w, h |-> bytes.h, src |-> src]]
    ELSE [ok |-> FALSE, img |-> NoImage]

\* truthiness of an Optional[str] form field: None and "" are both false
HasUrlNotNone(o) == o.some

HasUrl(o) == o.some /\ o.v # ""

----------------------------------------------------------------------------
(* The handler, overlay_logo, lines 84-153, one action per step.           *)

Fail(status, kind) ==
    /\ response' = ErrorResponse(status, kind)
    /\ pc' = "done"

\* line 84: require_token(authorization)
AuthenticateNoAbort ==
    /\ pc = "authenticate"
    /\ steps' = Append(steps, "authenticate")
    /\ LET r == require_token(req.authorization)
       IN  /\ response' = IF r = "ok" THEN response
                          ELSE ErrorResponse(IF r = "Forbidden" THEN 403 ELSE 401, r)
           /\ pc' = "normalize"
    /\ UNCHANGED <<cfg, req, world, pos, margin, sc, op, base, logo, target, place,
                   calls>>

Authenticate ==
    /\ pc = "authenticate"
    /\ steps' = Append(steps, "authenticate")
    /\ LET r == require_token(req.authorization)
       IN  IF r = "ok"
           THEN pc' = "normalize" /\ UNCHANGED response
           ELSE Fail(IF r = "Forbidden" THEN 403 ELSE 401, r)
    /\ UNCHANGED <<cfg, req, world, pos, margin, sc, op, base, logo, target, place,
                   calls>>

\* line 86: (position or DEFAULT_POSITION).strip().lower()
normalize_position_nolower(position) ==
    Strip(IF position.some /\ position.v # <<>> THEN position.v
          ELSE cfg.DEFAULT_POSITION)

normalize_position(position) ==
    Lower(Strip(IF position.some /\ position.v # <<>> THEN position.v
                ELSE cfg.DEFAULT_POSITION))

\* lines 90-92
normalize_margin(margin_px) ==
    LET m == IF margin_px.some THEN margin_px.v ELSE cfg.DEFAULT_MARGIN_PX
    IN  IF m < 0 THEN 0 ELSE m

\* lines 94-95
normalize_scale(scale) ==
    clamp_float(IF scale.some THEN scale.v ELSE cfg.DEFAULT_SCALE,
                Fin(SCALE_LO), Fin(SCALE_HI))

\* lines 97-98
normalize_opacity(opacity) ==
    clamp_float(IF opacity.some THEN opacity.v ELSE cfg.DEFAULT_OPACITY,
                Fin(OPACITY_LO), Fin(OPACITY_HI))

\* lines 86-98
Normalize ==
    /\ pc = "normalize"
    /\ steps' = Append(steps, "normalize")
    /\ pos' = normalize_position(req.position)
    /\ IF pos' \notin POSITIONS
       THEN /\ Fail(400, "InvalidParameter")
            /\ UNCHANGED <<margin, sc, op>>
       ELSE /\ margin' = normalize_margin(req.margin_px)
            /\ sc' = normalize_scale(req.scale)
            /\ op' = normalize_opacity(req.opacity)
            /\ pc' = "resolve_base"
            /\ UNCHANGED response
    /\ UNCHANGED <<cfg, req, world, base, logo, target, place, calls>>

\* lines 102, 110, 117: which source the base image is taken from
base_source_url_first(image, image_url) ==
    IF HasUrl(image_url) THEN "url"
    ELSE IF image.some THEN "upload"
    ELSE "none"

base_source(image, image_url) ==
    IF image.some THEN "upload"
    ELSE IF HasUrl(image_url) THEN "url"
    ELSE "none"

\* lines 100-118
ResolveBase ==
    /\ pc = "resolve_base"
    /\ steps' = Append(steps, "resolve_base")
    /\ LET source == base_source(req.image, req.image_url)
       IN  CASE source = "upload" ->
                  LET raw == req.image.v
                      d == Decode(raw, "upload")
                  IN  /\ UNCHANGED calls
                      /\ IF raw.kind = "empty"
                         THEN Fail(400, "EmptyUpload") /\ UNCHANGED base
                         ELSE IF ~d.ok
                         THEN Fail(400, "InvalidImageFormat") /\ UNCHANGED base
                         ELSE /\ base' = d.img
                              /\ pc' = "resolve_logo"
                              /\ UNCHANGED response
             [] source = "url" ->
                  LET resp == Fetch(world.baseRemote)
                      d == Decode(resp.content, "url")
                  IN  /\ calls' = Append(calls, "image_url")
                      /\ IF ~resp.ok \/ ~d.ok
                         THEN Fail(400, "RemoteFetchFailed") /\ UNCHANGED base
                         ELSE /\ base' = d.img
                              /\ pc' = "resolve_logo"
                              /\ UNCHANGED response
             [] OTHER ->
                  /\ Fail(400, "MissingBaseImage")
                  /\ UNCHANGED <<base, calls>>
    /\ UNCHANGED <<cfg, req, world, pos, margin, sc, op, logo, target, place>>

\* load_logo, lines 37-55: [kind |-> "ok" | the error, img, calls]
load_logo(logo_url) ==
    LET tryUrl == HasUrl(logo_url)
        resp == Fetch(world.logoRemote)
        remote == Decode(resp.content, "remote")
        c1 == IF tryUrl THEN <<"logo_url">> ELSE <<>>
        local == Decode(world.logoFile.v, "local")
    IN  IF tryUrl /\ resp.ok /\ remote.ok
        THEN [kind |-> "ok", img |-> remote.img, calls |-> c1]
        ELSE IF world.logoFile.some
        THEN IF local.ok
             THEN [kind |-> "ok", img |-> local.img, calls |-> c1 \o <<"logo_path">>]
             ELSE [kind |-> "InternalError", img |-> NoImage,
                   calls |-> c1 \o <<"logo_path">>]
        ELSE [kind |-> "LogoNotFound", img |-> NoImage, calls |-> c1 \o <<"logo_path">>]

\* line 121
ResolveLogo ==
    /\ pc = "resolve_logo"
    /\ steps' = Append(steps, "resolve_logo")
    /\ LET r == load_logo(req.logo_url)
       IN  /\ calls' = calls \o r.calls
           /\ IF r.kind = "ok"
              THEN /\ logo' = r.img
                   /\ pc' = "composite"
                   /\ UNCHANGED response
              ELSE /\ Fail(IF r.kind = "InternalError" THEN 500 ELSE 400, r.kind)
                   /\ UNCHANGED logo
    /\ UNCHANGED <<cfg, req, world, pos, margin, sc, op, base, target, place>>

\* lines 123-153: resize, opacity, placement, composite, PNG response
Composite ==
    /\ pc = "composite"
    /\ steps' = Append(steps, "composite")
    /\ IF sc.k # "fin"
       THEN \* int(base_w * sc) raises ValueError on NaN: an unhandled exception
            /\ Fail(500, "InternalError")
            /\ UNCHANGED <<target, place>>
       ELSE LET tw == target_logo_w(base.w, sc.m)
                th == target_logo_h(logo.h, tw, logo.w)
                xy == compute_position(base.w, base.h, tw, th, pos, margin)
            IN  /\ target' = <<tw, th>>
                /\ place' = xy
                /\ response' = [status |-> 200, kind |-> "png",
                                canvas |-> <<base.w, base.h>>,
                                overlay |-> <<tw, th>>,
                                logo_src |-> logo.src,
                                alpha |-> IF FLt(op, Fin(1000)) THEN op.m ELSE 1000,
                                at |-> xy]
                /\ pc' = "done"
    /\ UNCHANGED <<cfg, req, world, pos, margin, sc, op, base, logo, calls>>

----------------------------------------------------------------------------
(* Initial states: the handler's locals before line 84, and the inputs.    *)

Locals0 ==
    /\ pc = "authenticate"
    /\ pos = <<>>
    /\ margin = 0
    /\ sc = Fin(0)
    /\ op = Fin(0)
    /\ base = NoImage
    /\ logo = NoImage
    /\ target = <<0, 0>>
    /\ place = <<0, 0>>
    /\ steps = <<>>
    /\ calls = <<>>
    /\ response = NoResponse

\* the environment the code falls back to when nothing is configured
\* (lines 15, 86, 90, 94, 97)
StdCfg == [RUNNER_TOKEN |-> <<>>, DEFAULT_POSITION |-> BOTTOM_RIGHT,
           DEFAULT_MARGIN_PX |-> DEFAULT_MARGIN, DEFAULT_SCALE |-> Fin(DEFAULT_SCALE_M),
           DEFAULT_OPACITY |-> Fin(DEFAULT_OPACITY_M)]

Secret == <<"s", "3">>
Middle == <<"m","i","d","d","l","e">>

Remotes(w, h) ==
    {[st |-> "neterr", body |-> EmptyBytes], [st |-> "timeout", body |-> EmptyBytes],
     [st |-> "status", body |-> JunkBytes], [st |-> "ok", body |-> JunkBytes],
     [st |-> "ok", body |-> ImgBytes(w, h)]}

Urls(u) == {NoStr, SomeStr(""), SomeStr(u)}

\* Spec: every source of the two images and every way it fails, with the
\* default overlay parameters (and a scale that is not a number)
FlowCfg == {[StdCfg EXCEPT !.RUNNER_TOKEN = t] : t \in {<<>>, Secret}}

FlowReq ==
    [authorization : {NoHeader, Header("Basic ", Secret),
                      Header("Bearer ", <<" ">> \o Secret), Header("Bearer ", <<"x">>)},
     position : {NoText, SomeText(Middle)},
     margin_px : {NoInt},
     scale : {NoFloat, SomeFloat(NaN)},
     opacity : {NoFloat},
     image : {NoBytes, SomeBytes(EmptyBytes), SomeBytes(JunkBytes),
              SomeBytes(ImgBytes(3, 2))},
     image_url : Urls("http://base"),
     logo_url : Urls("http://logo")]

FlowWorld ==
    [baseRemote : Remotes(4, 2),
     logoRemote : Remotes(2, 1),
     logoFile : {NoBytes, SomeBytes(JunkBytes), SomeBytes(ImgBytes(1, 1))}]

Init ==
    /\ Locals0
    /\ cfg \in FlowCfg
    /\ req \in FlowReq
    /\ world \in FlowWorld

\* SpecParams: every shape of the four overlay parameters and their
\* configured defaults, on one uploaded base image and the local logo
StdWorld == [baseRemote |-> [st |-> "neterr", body |-> EmptyBytes],
             logoRemote |-> [st |-> "neterr", body |-> EmptyBytes],
             logoFile |-> SomeBytes(ImgBytes(200, 100))]

StdReq == [authorization |-> NoHeader, position |-> NoText, margin_px |-> NoInt,
           scale |-> NoFloat, opacity |-> NoFloat,
           image |-> SomeBytes(ImgBytes(100, 60)), image_url |-> NoStr,
           logo_url |-> NoStr]

PositionTexts ==
    {<<>>, <<" ", " ">>, Middle, TOP_LEFT, TOP_RIGHT, BOTTOM_LEFT, BOTTOM_RIGHT, CENTER,
     <<" ","T","o","p","_","L","e","f","t","\t">>,
     <<"C","E","N","T","E","R","\n">>,
     <<" ","B","O","T","T","O","M","_","l","e","f","t">>,
     <<"t","o","p"," ","r","i","g","h","t">>,
     <<"b","o","t","t","o","m","-","r","i","g","h","t">>}

DefaultPositions == {BOTTOM_RIGHT, <<" ","C","e","n","t","e","r">>,
                     <<"n","o","w","h","e","r","e">>}

MarginInputs == {NoInt} \cup {SomeInt(i) : i \in (-2 .. MaxMargin) \cup {DEFAULT_MARGIN}}

ScaleInputs ==
    {NoFloat} \cup {SomeFloat(f) : f \in {NaN, PosInf, NegInf, Fin(10), Fin(SCALE_LO),
                                          Fin(DEFAULT_SCALE_M), Fin(SCALE_HI), Fin(1500)}}

OpacityInputs ==
    {NoFloat} \cup {SomeFloat(f) : f \in {NaN, NegInf, Fin(0), Fin(OPACITY_LO),
                                          Fin(DEFAULT_OPACITY_M), Fin(OPACITY_HI),
                                          Fin(2000)}}

InitAnchor ==
    /\ cfg \in {[StdCfg EXCEPT !.DEFAULT_POSITION = d] : d \in DefaultPositions}
    /\ req \in {[StdReq EXCEPT !.position = p] :
                    p \in {NoText} \cup {SomeText(t) : t \in PositionTexts}}

InitNumbers ==
    /\ cfg \in {[StdCfg EXCEPT !.DEFAULT_MARGIN_PX = m, !.DEFAULT_SCALE = s,
                                !.DEFAULT_OPACITY = o] :
                    m \in {DEFAULT_MARGIN, -4},
                    s \in {Fin(DEFAULT_SCALE_M), Fin(950)},
                    o \in {Fin(DEFAULT_OPACITY_M), Fin(10)}}
    /\ req \in {[StdReq EXCEPT !.margin_px = m, !.scale = s, !.opacity = o] :
                    m \in MarginInputs, s \in ScaleInputs, o \in OpacityInputs}

InitParams ==
    /\ Locals0
    /\ world = StdWorld
    /\ (InitAnchor \/ InitNumbers)

\* SpecGeom: image sizes, anchors, margins and scales, on the successful path
Dims == 1 .. MaxDim
BaseSizes == (Dims \X Dims) \cup {<<1000, 800>>, <<100, 60>>}
LogoSizes == (Dims \X Dims) \cup {<<200, 100>>, <<49, 98>>}

InitGeom ==
    /\ Locals0
    /\ cfg = StdCfg
    /\ world \in {[StdWorld EXCEPT !.logoFile = SomeBytes(ImgBytes(l[1], l[2]))] :
                      l \in LogoSizes}
    /\ req \in {[StdReq EXCEPT !.position = SomeText(p), !.margin_px = m, !.scale = s,
                                !.image = SomeBytes(ImgBytes(b[1], b[2]))] :
                    p \in POSITIONS,
                    m \in {NoInt} \cup {SomeInt(i) : i \in 0 .. MaxMargin},
                    s \in {NoFloat, SomeFloat(Fin(SCALE_LO)), SomeFloat(Fin(290)),
                           SomeFloat(Fin(500)), SomeFloat(Fin(SCALE_HI))},
                    b \in BaseSizes}

Next ==
    \/ Authenticate
    \/ Normalize
    \/ ResolveBase
    \/ ResolveLogo
    \/ Composite

Spec == Init /\ [][Next]_vars
SpecParams == InitParams /\ [][Next]_vars
SpecGeom == InitGeom /\ [][Next]_vars

----------------------------------------------------------------------------
(* The claims.                                                             *)

Ran(step) == \E i \in DOMAIN steps : steps[i] = step
Called(c) == \E i \in DOMAIN calls : calls[i] = c
Done == pc = "done"
Kind == response.kind

StepOrder == <<"authenticate", "normalize", "resolve_base", "resolve_logo", "composite">>
BaseErrors == {"MissingBaseImage", "EmptyUpload", "InvalidImageFormat",
               "RemoteFetchFailed"}

\* C1: the steps run in the order authenticate, normalize, resolve base,
\* resolve logo, composite, and a failing step is the last one to run: after
\* an authentication failure or an invalid anchor nothing is fetched, after
\* a base-image failure the logo is neither fetched nor read, and a failing
\* run produces no PNG.
C1_ShortCircuit ==
    /\ Len(steps) <= Len(StepOrder)
    /\ steps = SubSeq(StepOrder, 1, Len(steps))
    /\ calls \in {<<>>, <<"image_url">>, <<"logo_url">>, <<"logo_path">>,
                  <<"image_url", "logo_url">>, <<"image_url", "logo_path">>,
                  <<"logo_url", "logo_path">>,
                  <<"image_url", "logo_url", "logo_path">>}
    /\ Kind \in {"Unauthenticated", "Forbidden"}
          => steps = SubSeq(StepOrder, 1, 1) /\ calls = <<>>
    /\ Kind = "InvalidParameter" => steps = SubSeq(StepOrder, 1, 2) /\ calls = <<>>
    /\ Kind \in BaseErrors
          => /\ steps = SubSeq(StepOrder, 1, 3)
             /\ ~Called("logo_url") /\ ~Called("logo_path")
             /\ logo = NoImage
    /\ Kind = "LogoNotFound" => steps = SubSeq(StepOrder, 1, 4)
    /\ Kind \notin {"none", "png"}
          => /\ Done
             /\ response.status # 200
             /\ response.canvas = <<0, 0>> /\ response.logo_src = "none"
             /\ target = <<0, 0>>
    /\ Kind = "png" => steps = StepOrder /\ response.status = 200
    /\ Kind = "none" => ~Done

\* C1 witness: the base image's URL fails while a logo URL and a local logo
\* are both there to be used; only the base image was fetched.
C1_Witness ==
    /\ Done /\ Kind = "RemoteFetchFailed"
    /\ HasUrl(req.logo_url) /\ world.logoFile.some
    /\ calls = <<"image_url">>

\* C2: a logo URL is given, its fetch or decode fails, and the file at
\* LOGO_PATH exists: the request succeeds with the local logo.
C2_FallbackSucceeds ==
    ( /\ Done /\ Ran("resolve_logo")
      /\ HasUrl(req.logo_url)
      /\ (world.logoRemote.st # "ok" \/ world.logoRemote.body.kind # "img")
      /\ world.logoFile.some )
    => Kind = "png" /\ response.logo_src = "local"

\* C3: when neither the URL step nor the LOGO_PATH step of load_logo yields
\* a decoded logo, the request fails with LogoNotFound and nothing else.
C3_LogoNotFound ==
    (Done /\ Ran("resolve_logo") /\ logo = NoImage)
    => Kind = "LogoNotFound" /\ response.status = 400

NoBaseGiven ==
    /\ ~req.image.some
    /\ req.image_url.v = ""
    /\ require_token(req.authorization) = "ok"
    /\ normalize_position(req.position) \in POSITIONS

\* C4: an authenticated request with a valid anchor and neither an upload
\* nor an image_url fails with MissingBaseImage and makes no outbound call,
\* not even for logo_url.
C4_MissingBase ==
    NoBaseGiven
    => /\ calls = <<>>
       /\ ~Ran("resolve_logo")
       /\ Done => Kind = "MissingBaseImage" /\ response.status = 400

\* C4 witness: such a request, with a logo_url that would have answered.
C4_Witness ==
    /\ NoBaseGiven /\ Done /\ Kind = "MissingBaseImage"
    /\ req.image_url.some
    /\ HasUrl(req.logo_url) /\ world.logoRemote.st = "ok"

BothGiven == req.image.some /\ req.image_url.some /\ req.image_url.v # ""

\* C5: with an upload and an image_url both supplied, image_url is never
\* fetched; a decodable upload becomes the base image, an empty one fails
\* with EmptyUpload, an undecodable one with InvalidImageFormat.
C5_UploadWins ==
    BothGiven
    => /\ ~Called("image_url")
       /\ Ran("resolve_base")
            => CASE req.image.v.kind = "img" ->
                      /\ base = [w |-> req.image.v.w, h |-> req.image.v.h,
                                 src |-> "upload"]
                      /\ Kind \notin BaseErrors
                 [] req.image.v.kind = "empty" ->
                      Kind = "EmptyUpload" /\ base = NoImage
                 [] OTHER -> Kind = "InvalidImageFormat" /\ base = NoImage

\* C5 witness: an undecodable upload beside a URL that serves a good image.
C5_Witness ==
    /\ BothGiven /\ Done /\ Kind = "InvalidImageFormat"
    /\ world.baseRemote.st = "ok" /\ world.baseRemote.body.kind = "img"

InRange(f, lo, hi) == f.k = "fin" /\ lo <= f.m /\ f.m <= hi

\* the value of a float nearest to v within [lo, hi], v not NaN
Nearest(v, lo, hi) ==
    CASE v.k = "ninf" -> Fin(lo)
      [] v.k = "inf" -> Fin(hi)
      [] OTHER -> IF v.m < lo THEN Fin(lo) ELSE IF v.m > hi THEN Fin(hi) ELSE v

\* C6: margin, scale and opacity are clamped, never rejected: the effective
\* values satisfy margin >= 0, 0.03 <= scale <= 0.80, 0.05 <= opacity <= 1.00,
\* equal the input (or the default, when absent) if that is in range and the
\* nearest bound otherwise, and no value of the three makes the request fail.
C6_Clamped ==
    (Ran("normalize") /\ pos \in POSITIONS)
    => LET m_in == IF req.margin_px.some THEN req.margin_px.v ELSE cfg.DEFAULT_MARGIN_PX
           s_in == IF req.scale.some THEN req.scale.v ELSE cfg.DEFAULT_SCALE
           o_in == IF req.opacity.some THEN req.opacity.v ELSE cfg.DEFAULT_OPACITY
       IN  /\ margin >= 0 /\ margin = Max(0, m_in)
           /\ InRange(sc, SCALE_LO, SCALE_HI)
           /\ InRange(op, OPACITY_LO, OPACITY_HI)
           /\ s_in.k # "nan" => sc = Nearest(s_in, SCALE_LO, SCALE_HI)
           /\ o_in.k # "nan" => op = Nearest(o_in, OPACITY_LO, OPACITY_HI)
           /\ Done => Kind = "png"

\* the text is an anchor's name in any letter case, with whitespace around it
IsAnchorText(s) ==
    \E a \in 0 .. Len(s), b \in 0 .. Len(s) :
        /\ a + b <= Len(s)
        /\ \A i \in 1 .. a : IsSpace(s[i])
        /\ \A i \in (Len(s) - b + 1) .. Len(s) : IsSpace(s[i])
        /\ [i \in 1 .. (Len(s) - a - b) |-> LowerChar(s[a + i])] \in POSITIONS

GivenPosition ==
    IF req.position.some /\ req.position.v # <<>> THEN req.position.v
    ELSE cfg.DEFAULT_POSITION

\* C7: the anchor is position or, if absent, the configured default, trimmed
\* and lower-cased; the request fails with InvalidParameter exactly when that
\* is none of the five anchors.  An invalid position is not replaced by the
\* default, and the five names in any case, with whitespace around them, pass.
C7_Anchor ==
    Ran("normalize")
    => /\ Kind = "InvalidParameter" <=> ~IsAnchorText(GivenPosition)
       /\ Kind = "InvalidParameter" => response.status = 400 /\ Done
       /\ IsAnchorText(GivenPosition) => pos \in POSITIONS /\ IsAnchorText(pos)

\* C7 witness: "CENTER\n" is accepted as center and the request succeeds.
C7_Witness ==
    /\ Done /\ Kind = "png"
    /\ req.position = SomeText(<<"C","E","N","T","E","R","\n">>)
    /\ pos = CENTER

\* the Geometry Calculator of the specification
RefPlacement(W, H, w, h, a, m) ==
    CASE a = TOP_LEFT -> <<m, m>>
      [] a = TOP_RIGHT -> <<W - w - m, m>>
      [] a = BOTTOM_LEFT -> <<m, H - h - m>>
      [] a = CENTER -> <<(W - w) \div 2, (H - h) \div 2>>
      [] OTHER -> <<W - w - m, H - h - m>>

\* C8: the overlay is composited at the Geometry Calculator's placement for
\* the base size, the overlay's size after the resize, the anchor and the
\* clamped margin, unchecked against the canvas; an unrecognized anchor is
\* placed as bottom_right; base 1000x800, logo 200x100, bottom_right, margin
\* 24, scale 0.18 give an overlay of 180x90 at (796, 686).
C8_Placement ==
    Kind = "png"
    => /\ response.overlay = target
       /\ response.at = place
       /\ place = RefPlacement(base.w, base.h, target[1], target[2], pos, margin)
       /\ compute_position(base.w, base.h, target[1], target[2], Middle, margin)
            = <<base.w - target[1] - margin, base.h - target[2] - margin>>
       /\ ( /\ base.w = 1000 /\ base.h = 800 /\ logo.w = 200 /\ logo.h = 100
            /\ pos = BOTTOM_RIGHT /\ margin = 24 /\ sc = Fin(180) )
            => response.overlay = <<180, 90>> /\ response.at = <<796, 686>>

\* C8 witness: the specification's example.
C8_Witness ==
    /\ Kind = "png"
    /\ base.w = 1000 /\ base.h = 800 /\ logo.w = 200 /\ logo.h = 100
    /\ pos = BOTTOM_RIGHT /\ margin = 24 /\ sc = Fin(180)
    /\ response.at = <<796, 686>>

\* C9, as claimed: the overlay's target height is round(Ho * Wt / Wo), the
\* integer nearest to the exact ratio (and never less than 1).
C9_Rounds ==
    Kind = "png" => target[2] = Max(1, RoundRatio(logo.h, target[1], logo.w))

\* C9, amended: the target height is max(1, int(Ho * (Wt / Wo))), the ratio
\* truncated, not rounded: max(1, floor(Ho * Wt / Wo)) whenever Ho * Wt / Wo
\* is not an integer, and that or one less (never below 1) when it is an
\* integer, where the floating-point product may fall just below it.
C9_Truncates ==
    Kind = "png"
    => LET n == logo.h * target[1]
           q == n \div logo.w
       IN  /\ target[2] >= 1
           /\ response.overlay[2] = target[2]
           /\ IF n % logo.w # 0 THEN target[2] = Max(1, q)
              ELSE target[2] \in {Max(1, q), Max(1, q - 1)}

\* C9 witness: a ratio whose floor and nearest integer differ, floor taken.
C9_Witness ==
    /\ Kind = "png"
    /\ target[2] = (logo.h * target[1]) \div logo.w
    /\ target[2] # RoundRatio(logo.h, target[1], logo.w)

\* C10: a base image taken from image_url fails with RemoteFetchFailed on a
\* network failure, timeout or non-2xx answer, and with InvalidImageFormat
\* when the fetch succeeds but the bytes do not decode.
C10_ClassifiedByCause ==
    (Ran("resolve_base") /\ ~req.image.some /\ HasUrl(req.image_url))
    => /\ world.baseRemote.st # "ok" => Kind = "RemoteFetchFailed"
       /\ (world.baseRemote.st = "ok" /\ world.baseRemote.body.kind # "img")
            => Kind = "InvalidImageFormat"

====
